---- MODULE Spec2Model ----
(***************************************************************************)
(* Model of the audio sequence pipeline: main.ts (parse, validate, call    *)
(* combineAudioFiles, report), csvParser.ts, fileValidator.ts and          *)
(* audioProcessor.ts (generateSilence, getAudioDuration,                   *)
(* combineAudioFiles).                                                     *)
(*                                                                         *)
(* A string is a sequence of pieces, each piece one character or, for the  *)
(* fixed names of the program ("temporary_deletable", "silence-", ".mp3",  *)
(* "concat-list.txt", "file"), a run of letters taken as one; trim,        *)
(* parseFloat, the quote escaping and the concat-list syntax are computed  *)
(* piece by piece. An optional field (undefined | value) is a sequence of  *)
(* length 0 or 1.                                                          *)
(*                                                                         *)
(* The file system holds the scratch directory, the files in it and the    *)
(* output files. mkdirSync, rmSync and writeFileSync fail only for a       *)
(* reason the model holds (a missing directory); ffmpeg and ffprobe may    *)
(* fail at any invocation.                                                 *)
(***************************************************************************)
EXTENDS Integers, Sequences, FiniteSets, TLC

VARIABLES
    csvExists,      \* run -> the CSV file exists on disk
    rows,           \* run -> rows of the CSV file (raw strings)
    outDir,         \* run -> state of PATH_MP3_OUTPUT on disk
    pc,             \* run -> position of main's async IIFE
    audioSequence,  \* run -> AudioSequenceStep[] returned by the parser
    state,          \* run -> phase of combineAudioFiles
    i,              \* run -> loop index of combineAudioFiles
    filesToConcat,  \* run -> the segment plan built so far
    result,         \* run -> ProcessingResult returned (optional)
    error,          \* run -> the error combineAudioFiles rejected with, or "none"
    ops,            \* run -> history of tool invocations and manifest writes
    dirs,           \* file system: existing scratch directories
    tmpFiles,       \* file system: the files in scratch directories
    outFiles        \* file system: the output files

vars == <<csvExists, rows, outDir, pc, audioSequence, state, i, filesToConcat,
          result, error, ops, dirs, tmpFiles, outFiles>>

(***************************************************************************)
(* Bounds                                                                  *)
(***************************************************************************)
MaxSteps == 3       \* rows in the CSV file of a single run
MaxConcSteps == 2   \* rows per CSV file when two runs overlap
MaxLiveSteps == 3   \* rows in the CSV file of a run under fair scheduling
MaxPathLen == 3     \* length of the paths the manifest escaping is tried on
MaxLineSteps == 3   \* rows in the CSV file when clip paths may hold a line feed

Runs == {1, 2}

(***************************************************************************)
(* Optional values and strings                                             *)
(***************************************************************************)
\* F applied to the value of x (x is evaluated once, before F)
Value(F(_), x) == CHOOSE y \in {F(v) : v \in {x}} : TRUE

None == << >>
Some(x) == <<x>>
IsSome(o) == Len(o) = 1
Get(o) == o[1]

QUOTE == "'"
BACKSLASH == "\\"
SPACE == " "
LF == "\n"

IsWhitespace(c) == c \in {SPACE, LF, "\t", "\r"}

RECURSIVE TrimStart(_)
TrimStart(s) ==
    IF s # << >> /\ IsWhitespace(Head(s)) THEN TrimStart(Tail(s)) ELSE s

RECURSIVE TrimEnd(_)
TrimEnd(s) ==
    IF s # << >> /\ IsWhitespace(s[Len(s)])
    THEN TrimEnd(SubSeq(s, 1, Len(s) - 1))
    ELSE s

\* String.prototype.trim
Trim(s) == TrimEnd(TrimStart(s))

Digits == <<"0", "1", "2", "3", "4", "5", "6", "7", "8", "9">>
IsDigit(c) == \E d \in 1..10 : Digits[d] = c
DigitValue(c) == (CHOOSE d \in 1..10 : Digits[d] = c) - 1

\* the decimal string of a non-negative integer (template literal ${i})
RECURSIVE IndexString(_)
IndexString(n) ==
    IF n < 10 THEN <<Digits[n + 1]>>
    ELSE IndexString(n \div 10) \o <<Digits[(n % 10) + 1]>>

RECURSIVE ParseDigits(_, _)
ParseDigits(s, acc) ==
    IF s # << >> /\ IsDigit(Head(s))
    THEN ParseDigits(Tail(s), 10 * acc + DigitValue(Head(s)))
    ELSE acc

\* parseFloat on the modelled alphabet (whitespace, sign, decimal digits,
\* letters): skips leading whitespace, reads an optional sign and the longest
\* run of digits, ignores what follows; None stands for NaN.
ParseFloat(s) ==
    LET t == TrimStart(s)
        neg == t # << >> /\ Head(t) = "-"
        signed == t # << >> /\ Head(t) \in {"-", "+"}
        u == IF signed THEN Tail(t) ELSE t
    IN  IF u = << >> \/ ~IsDigit(Head(u)) THEN None
        ELSE Some(IF neg THEN 0 - ParseDigits(u, 0) ELSE ParseDigits(u, 0))

\* path.join of two segments that need no normalisation
PathJoin(a, b) == a \o <<"/">> \o b

(***************************************************************************)
(* Inputs: the CSV fields and the files on disk                            *)
(***************************************************************************)
\* raw audio_file_name_and_path fields: empty, " a" (trimmed to "a"), "b'", "m"
ClipFields == {<< >>, <<SPACE, "a">>, <<"b", QUOTE>>, <<"m">>}
\* raw pause_duration fields: empty, "abc", "0", "-1", "2"
PauseFields == {<< >>, <<"a", "b", "c">>, <<"0">>, <<"-", "1">>, <<"2">>}
\* every clip path names a file on disk, except "m"
MissingClips == {<<"m">>}
existsSync(p) == p \notin MissingClips

\* a row with no clip has any of the pause fields; a row with a clip has no
\* pause or the pause "2" (the loop never reads the pause of a step with a clip)
RowPool == {r \in [audio_file_name_and_path : ClipFields, pause_duration : PauseFields] :
    r.audio_file_name_and_path = << >> \/ r.pause_duration \in {<< >>, <<"2">>}}
\* a smaller choice of rows: a clip, a pause, an empty row
SmallRowPool == {r \in RowPool :
    \/ r.audio_file_name_and_path = <<SPACE, "a">> /\ r.pause_duration = << >>
    \/ r.audio_file_name_and_path = << >> /\ r.pause_duration \in {<< >>, <<"2">>}}

SeqsUpTo(S, n) == UNION {[1..k -> S] : k \in 0..n}

\* PATH_PROJECT_RESOURCES and the output file name of a run; two runs started
\* in different seconds have different output file names
ProjectResourcesPath(r) == <<"r">>
OutputPath(r) == <<"o", IndexString(r)[1]>>

OutDirStates == {"ok", "missing", "notDirectory", "notWritable"}

(***************************************************************************)
(* csvParser.ts                                                            *)
(***************************************************************************)
\* the 'data' handler: one row to one AudioSequenceStep
ParseRow(row, k) ==
    LET audio == IF row.audio_file_name_and_path # << >>
                    /\ Trim(row.audio_file_name_and_path) # << >>
                 THEN Some(Trim(row.audio_file_name_and_path))
                 ELSE None
        pause == IF row.pause_duration # << >> /\ Trim(row.pause_duration) # << >>
                 THEN ParseFloat(row.pause_duration)
                 ELSE None
    IN  [id |-> k, audio_file_name_and_path |-> audio, pause_duration |-> pause]

parseAudioSequenceCSV(rs) == [k \in 1..Len(rs) |-> ParseRow(rs[k], k)]

(***************************************************************************)
(* fileValidator.ts                                                        *)
(***************************************************************************)
validateAudioFilesLenient(steps) == TRUE

validateAudioFiles(steps) ==
    LET audioSteps == SelectSeq(steps, LAMBDA s : IsSome(s.audio_file_name_and_path))
        missingFiles == SelectSeq(audioSteps,
            LAMBDA s : ~existsSync(Get(s.audio_file_name_and_path)))
    IN  ~(Len(missingFiles) > 0)

validateOutputDirectory(d) ==
    IF d = "missing" THEN FALSE
    ELSE IF d = "notDirectory" THEN FALSE
    ELSE IF d = "notWritable" THEN FALSE
    ELSE TRUE

(***************************************************************************)
(* audioProcessor.ts: paths and the file system                            *)
(***************************************************************************)
TemporaryDeletable == <<"temporary_deletable">>
ConcatListName == <<"concat-list.txt">>
SilencePrefix == <<"silence-">>
Mp3Suffix == <<".mp3">>

tempDir(r) == PathJoin(ProjectResourcesPath(r), TemporaryDeletable)
concatListPath(r) == PathJoin(tempDir(r), ConcatListName)
\* `silence-${i}.mp3` in tempDir
silenceFileShared(r, idx) == PathJoin(tempDir(r), SilencePrefix \o Mp3Suffix)
silenceFile(r, idx) == PathJoin(tempDir(r), SilencePrefix \o IndexString(idx) \o Mp3Suffix)

\* a file is a record; `by' is the run that wrote it (history only)
SilenceContent(p, dur, r) ==
    [path |-> p, kind |-> "silence", text |-> << >>, dur |-> dur, by |-> r]
ManifestContent(p, text, r) ==
    [path |-> p, kind |-> "manifest", text |-> text, dur |-> 0, by |-> r]

IsUnder(p, d) == Len(p) > Len(d) + 1 /\ SubSeq(p, 1, Len(d) + 1) = d \o <<"/">>
FileAt(fs, p) == {f \in fs : f.path = p}
\* creating or overwriting a file (ffmpeg -y, writeFileSync)
WriteFile(fs, f) == (fs \ FileAt(fs, f.path)) \cup {f}

\* if (!existsSync(tempDir)) mkdirSync(tempDir, {recursive: true})
mkdirSyncLeftOut(ds, d) == ds
mkdirSync(ds, d) == IF d \notin ds THEN ds \cup {d} ELSE ds

\* the finally block: rmSync(tempDir, {recursive, force}) when tempDir exists
FinallyDirsKeep(ds, d) == ds    \* a finally block that leaves the directory
FinallyDirs(ds, d) == IF d \in ds THEN ds \ {d} ELSE ds
FinallyFiles(fs, ds, d) == IF d \in ds THEN {f \in fs : ~IsUnder(f.path, d)} ELSE fs

(***************************************************************************)
(* audioProcessor.ts: the segment plan and the concat list                 *)
(***************************************************************************)
\* if (step.audio_file_name_and_path)
HasClip(step) ==
    IsSome(step.audio_file_name_and_path) /\ Get(step.audio_file_name_and_path) # << >>

\* step.pause_duration !== undefined && step.pause_duration > 0
IsPositivePauseOrZero(step) ==
    IsSome(step.pause_duration) /\ Get(step.pause_duration) >= 0
IsPositivePause(step) ==
    IsSome(step.pause_duration) /\ Get(step.pause_duration) > 0

\* filesToConcat.push(x)
PushFront(list, x) == <<x>> \o list
Push(list, x) == Append(list, x)

\* filesToConcat.length === 0
IsEmptyPlanNever(list) == Len(list) < 0
IsEmptyPlan(list) == Len(list) = 0

\* file.replace(/'/g, "'\\''")
EscapeQuotesPlain(file) == file
RECURSIVE EscapeQuotes(_)
EscapeQuotes(file) ==
    IF file = << >> THEN << >>
    ELSE IF Head(file) = QUOTE
         THEN <<QUOTE, BACKSLASH, QUOTE, QUOTE>> \o EscapeQuotes(Tail(file))
         ELSE <<Head(file)>> \o EscapeQuotes(Tail(file))

\* `file '${...}'`
ConcatListLine(file) ==
    <<"file", SPACE, QUOTE>> \o EscapeQuotes(file) \o <<QUOTE>>

\* lines.join("\n")
RECURSIVE JoinLinesWithSpace(_)
JoinLinesWithSpace(lines) ==
    IF lines = << >> THEN << >>
    ELSE IF Len(lines) = 1 THEN lines[1]
    ELSE lines[1] \o <<SPACE>> \o JoinLinesWithSpace(Tail(lines))
RECURSIVE JoinLines(_)
JoinLines(lines) ==
    IF lines = << >> THEN << >>
    ELSE IF Len(lines) = 1 THEN lines[1]
    ELSE lines[1] \o <<LF>> \o JoinLines(Tail(lines))

concatListContent(list) == JoinLines([k \in 1..Len(list) |-> ConcatListLine(list[k])])

(***************************************************************************)
(* The concat demuxer that ffmpeg runs over the list (-f concat -safe 0):  *)
(* the list is read line by line; a line is a keyword and one token;       *)
(* in a token a backslash quotes the next character, single quotes quote   *)
(* everything up to the next single quote, unquoted whitespace ends it.    *)
(***************************************************************************)
IsLineEnd(c) == c \in {LF, "\r"}
IsSpaceChar(c) == c \in {SPACE, "\t", LF, "\r", "\f"}

\* the lines of a text: the pieces between consecutive line ends
SplitAt(text, breaks) ==
    LET break(n) == CHOOSE k \in breaks : Cardinality({j \in breaks : j < k}) = n - 1
        from(n) == IF n = 1 THEN 1 ELSE break(n - 1) + 1
        to(n) == IF n = Cardinality(breaks) + 1 THEN Len(text) ELSE break(n) - 1
    IN  [n \in 1..(Cardinality(breaks) + 1) |-> SubSeq(text, from(n), to(n))]

SplitLines(text) ==
    Value(LAMBDA breaks : SplitAt(text, breaks),
          {k \in 1..Len(text) : IsLineEnd(text[k])})

RECURSIVE SkipSpaces(_)
SkipSpaces(s) == IF s # << >> /\ IsSpaceChar(Head(s)) THEN SkipSpaces(Tail(s)) ELSE s

RECURSIVE TakeWord(_, _)
TakeWord(s, out) ==
    IF s = << >> \/ IsSpaceChar(Head(s)) THEN [word |-> out, rest |-> s]
    ELSE TakeWord(Tail(s), Append(out, Head(s)))

RECURSIVE GetToken(_, _, _)
GetToken(s, out, inQuote) ==
    IF s = << >> THEN [token |-> out, rest |-> << >>]
    ELSE IF inQuote
         THEN IF Head(s) = QUOTE THEN GetToken(Tail(s), out, FALSE)
              ELSE GetToken(Tail(s), Append(out, Head(s)), TRUE)
    ELSE IF IsSpaceChar(Head(s)) THEN [token |-> out, rest |-> s]
    ELSE IF Head(s) = BACKSLASH /\ Tail(s) # << >>
         THEN GetToken(Tail(Tail(s)), Append(out, s[2]), FALSE)
    ELSE IF Head(s) = QUOTE THEN GetToken(Tail(s), out, TRUE)
    ELSE GetToken(Tail(s), Append(out, Head(s)), FALSE)

\* one line: None when it is blank or a comment, else the entry it holds
\* (ok is FALSE for an unknown keyword, a missing file name or trailing text)
EntryOf(kw, tk) ==
    IF kw.word = << >> \/ Head(kw.word) = "#" THEN None
    ELSE Some([ok |-> /\ kw.word = <<"file">>
                      /\ tk.token # << >>
                      /\ SkipSpaces(tk.rest) = << >>,
               file |-> tk.token])

ParseLine(line) ==
    Value(LAMBDA kw :
              Value(LAMBDA tk : EntryOf(kw, tk), GetToken(SkipSpaces(kw.rest), << >>, FALSE)),
          TakeWord(SkipSpaces(line), << >>))

\* the entries of a list, in order
ParseConcatList(text) ==
    Value(LAMBDA kept : [k \in 1..Len(kept) |-> Get(kept[k])],
          SelectSeq([k \in 1..Len(SplitLines(text)) |-> ParseLine(SplitLines(text)[k])],
                    IsSome))

(***************************************************************************)
(* audioProcessor.ts: the external tools                                   *)
(***************************************************************************)
\* generateSilence settles its promise: resolve() when execSync returned and
\* the file exists, reject(error) when execSync threw or the file is absent
SettleAlways(execOk, created) == "resolved"
SettleNever(execOk, created) == "pending"
Settle(execOk, created) ==
    IF execOk /\ created THEN "resolved" ELSE "rejected"

\* what an ffmpeg concat run can end in, given the list file and the files
\* it names: "end" with the whole output written, "error" before the output
\* is opened, "error" after a part of the output is written
OutcomesFor(fs, entries) ==
    LET readable(e) == e.ok /\ (existsSync(e.file) \/ FileAt(fs, e.file) # {})
    IN  IF entries = << >> \/ ~readable(entries[1]) THEN {"errorNoOutput"}
        ELSE IF \E k \in 1..Len(entries) : ~readable(entries[k])
             THEN {"errorNoOutput", "errorPartialOutput"}
             ELSE {"end", "errorNoOutput", "errorPartialOutput"}

ConcatOutcomes(fs, listPath) ==
    IF FileAt(fs, listPath) = {} THEN {"errorNoOutput"}
    ELSE Value(LAMBDA entries : OutcomesFor(fs, entries),
               ParseConcatList((CHOOSE f \in FileAt(fs, listPath) : TRUE).text))

\* metadata.format.duration || 0, as reported by ffprobe
Durations == {0, 10}

Op(name, at, ok) == [op |-> name, at |-> at, ok |-> ok]

(***************************************************************************)
(* Initial states                                                          *)
(***************************************************************************)
Fresh ==
    /\ audioSequence = [r \in Runs |-> << >>]
    /\ state = [r \in Runs |-> "Idle"]
    /\ i = [r \in Runs |-> 0]
    /\ filesToConcat = [r \in Runs |-> << >>]
    /\ result = [r \in Runs |-> None]
    /\ error = [r \in Runs |-> "none"]
    /\ ops = [r \in Runs |-> << >>]
    /\ dirs = {}
    /\ tmpFiles = {}
    /\ outFiles = {}

\* one process: main.ts started once
SingleRun(contents) ==
    /\ \E c \in BOOLEAN :
        /\ csvExists = [r \in Runs |-> r = 1 /\ c]
        /\ \E rs \in (IF c THEN contents ELSE {<< >>}) :
            rows = [r \in Runs |-> IF r = 1 THEN rs ELSE << >>]
    /\ \E d \in OutDirStates : outDir = [r \in Runs |-> IF r = 1 THEN d ELSE "ok"]
    /\ pc = [r \in Runs |-> IF r = 1 THEN "parse" ELSE "off"]
    /\ Fresh

Init == SingleRun(SeqsUpTo(RowPool, MaxSteps))

(***************************************************************************)
(* main.ts                                                                 *)
(***************************************************************************)
\* Step 1: parse the CSV file
ParseCsv(r) ==
    /\ pc[r] = "parse"
    /\ IF csvExists[r]
       THEN /\ audioSequence' = [audioSequence EXCEPT ![r] = parseAudioSequenceCSV(rows[r])]
            /\ pc' = [pc EXCEPT ![r] = "validateOutput"]
       ELSE /\ pc' = [pc EXCEPT ![r] = "exit1"]
            /\ UNCHANGED audioSequence
    /\ UNCHANGED <<csvExists, rows, outDir, state, i, filesToConcat, result, error,
                   ops, dirs, tmpFiles, outFiles>>

\* Step 2: validate the output directory
ValidateOutput(r) ==
    /\ pc[r] = "validateOutput"
    /\ pc' = [pc EXCEPT ![r] =
                IF validateOutputDirectory(outDir[r]) THEN "validateAudio" ELSE "exit1"]
    /\ UNCHANGED <<csvExists, rows, outDir, audioSequence, state, i, filesToConcat,
                   result, error, ops, dirs, tmpFiles, outFiles>>

\* Step 3: validate that all audio files exist
ValidateAudio(r) ==
    /\ pc[r] = "validateAudio"
    /\ pc' = [pc EXCEPT ![r] =
                IF validateAudioFiles(audioSequence[r]) THEN "process" ELSE "exit1"]
    /\ UNCHANGED <<csvExists, rows, outDir, audioSequence, state, i, filesToConcat,
                   result, error, ops, dirs, tmpFiles, outFiles>>

\* Step 4: call combineAudioFiles; it creates the scratch directory and
\* enters its try block
CallCombine(r) ==
    /\ pc[r] = "process"
    /\ state[r] = "Idle"
    /\ pc' = [pc EXCEPT ![r] = "await"]
    /\ state' = [state EXCEPT ![r] = "Planning"]
    /\ dirs' = mkdirSync(dirs, tempDir(r))
    /\ i' = [i EXCEPT ![r] = 0]
    /\ filesToConcat' = [filesToConcat EXCEPT ![r] = << >>]
    /\ UNCHANGED <<csvExists, rows, outDir, audioSequence, result, error, ops, tmpFiles,
                   outFiles>>

\* Step 5: report the result, exit 0
Report(r) ==
    /\ pc[r] = "await"
    /\ state[r] = "Done"
    /\ pc' = [pc EXCEPT ![r] = "exit0"]
    /\ UNCHANGED <<csvExists, rows, outDir, audioSequence, state, i, filesToConcat,
                   result, error, ops, dirs, tmpFiles, outFiles>>

\* the catch block: exit 1
CatchFatal(r) ==
    /\ pc[r] = "await"
    /\ state[r] = "Failed"
    /\ pc' = [pc EXCEPT ![r] = "exit1"]
    /\ UNCHANGED <<csvExists, rows, outDir, audioSequence, state, i, filesToConcat,
                   result, error, ops, dirs, tmpFiles, outFiles>>

(***************************************************************************)
(* audioProcessor.ts: combineAudioFiles                                    *)
(***************************************************************************)
CurrentStep(r) == audioSequence[r][i[r] + 1]

InLoop(r) == state[r] = "Planning" /\ i[r] < Len(audioSequence[r])
AfterLoop(r) == state[r] = "Planning" /\ i[r] = Len(audioSequence[r])

Log(r, o) == [ops EXCEPT ![r] = Append(@, o)]

\* an error leaves the try block: the finally block runs, the promise rejects
ThrowPastCleanup(r, fs, err) ==     \* cleanup at the end of the try body only
    /\ state' = [state EXCEPT ![r] = "Failed"]
    /\ error' = [error EXCEPT ![r] = err]
    /\ dirs' = dirs
    /\ tmpFiles' = fs
Throw(r, fs, err) ==
    /\ state' = [state EXCEPT ![r] = "Failed"]
    /\ error' = [error EXCEPT ![r] = err]
    /\ dirs' = FinallyDirs(dirs, tempDir(r))
    /\ tmpFiles' = FinallyFiles(fs, dirs, tempDir(r))

\* loop body, first branch: an existing audio file
AddClip(r) ==
    /\ InLoop(r)
    /\ HasClip(CurrentStep(r))
    /\ filesToConcat' = [filesToConcat EXCEPT ![r] =
                            Push(@, Get(CurrentStep(r).audio_file_name_and_path))]
    /\ i' = [i EXCEPT ![r] = @ + 1]
    /\ UNCHANGED <<csvExists, rows, outDir, pc, audioSequence, state, result, error,
                   ops, dirs, tmpFiles, outFiles>>

\* loop body, second branch: await generateSilence(...)
GenerateSilence(r) ==
    /\ InLoop(r)
    /\ ~HasClip(CurrentStep(r))
    /\ IsPositivePause(CurrentStep(r))
    /\ \E toolOk \in BOOLEAN :
        LET file == silenceFile(r, i[r])
            execOk == toolOk /\ tempDir(r) \in dirs
            fs == IF execOk
                  THEN WriteFile(tmpFiles,
                           SilenceContent(file, Get(CurrentStep(r).pause_duration), r))
                  ELSE tmpFiles
            settled == Settle(execOk, FileAt(fs, file) # {})
        IN  CASE settled = "resolved" ->
                      /\ ops' = Log(r, Op("silence", i[r], execOk))
                      /\ tmpFiles' = fs
                      /\ filesToConcat' = [filesToConcat EXCEPT ![r] = Push(@, file)]
                      /\ i' = [i EXCEPT ![r] = @ + 1]
                      /\ UNCHANGED <<state, error, dirs>>
              [] settled = "rejected" ->
                      /\ ops' = Log(r, Op("silence", i[r], execOk))
                      /\ Throw(r, fs, "silence")
                      /\ UNCHANGED <<filesToConcat, i>>
              [] OTHER ->     \* a promise that never settles: the await never resumes
                      /\ tmpFiles' = fs
                      /\ UNCHANGED <<ops, filesToConcat, i, state, error, dirs>>
    /\ UNCHANGED <<csvExists, rows, outDir, pc, audioSequence, result, outFiles>>

\* loop body, neither branch: the step adds nothing
SkipStep(r) ==
    /\ InLoop(r)
    /\ ~HasClip(CurrentStep(r))
    /\ ~IsPositivePause(CurrentStep(r))
    /\ i' = [i EXCEPT ![r] = @ + 1]
    /\ UNCHANGED <<csvExists, rows, outDir, pc, audioSequence, state, filesToConcat,
                   result, error, ops, dirs, tmpFiles, outFiles>>

\* throw new Error("No audio files or pauses to process")
ThrowNothingToProcess(r) ==
    /\ AfterLoop(r)
    /\ IsEmptyPlan(filesToConcat[r])
    /\ Throw(r, tmpFiles, "nothingToProcess")
    /\ UNCHANGED <<csvExists, rows, outDir, pc, audioSequence, i, filesToConcat,
                   result, ops, outFiles>>

\* writeFileSync(concatListPath, concatListContent), then ffmpeg is started
WriteConcatList(r) ==
    /\ AfterLoop(r)
    /\ ~IsEmptyPlan(filesToConcat[r])
    /\ IF tempDir(r) \in dirs
       THEN /\ tmpFiles' = WriteFile(tmpFiles,
                   ManifestContent(concatListPath(r), concatListContent(filesToConcat[r]), r))
            /\ ops' = Log(r, Op("manifest", Len(filesToConcat[r]), TRUE))
            /\ state' = [state EXCEPT ![r] = "Concatenating"]
            /\ UNCHANGED <<dirs, error>>
       ELSE /\ Throw(r, tmpFiles, "writeFile")     \* ENOENT
            /\ UNCHANGED ops
    /\ UNCHANGED <<csvExists, rows, outDir, pc, audioSequence, i, filesToConcat,
                   result, outFiles>>

OutputContent(p, status, r) == [path |-> p, status |-> status, by |-> r]

\* ffmpeg emits 'end' or 'error'
ConcatReturn(r) ==
    /\ state[r] = "Concatenating"
    /\ \E outcome \in ConcatOutcomes(tmpFiles, concatListPath(r)) :
        /\ ops' = Log(r, Op("concat", 0, outcome = "end"))
        /\ CASE outcome = "end" ->
                  /\ outFiles' = WriteFile(outFiles, OutputContent(OutputPath(r), "complete", r))
                  /\ state' = [state EXCEPT ![r] = "Probing"]
                  /\ UNCHANGED <<dirs, tmpFiles, error>>
             [] outcome = "errorPartialOutput" ->
                  /\ outFiles' = WriteFile(outFiles, OutputContent(OutputPath(r), "partial", r))
                  /\ Throw(r, tmpFiles, "concat")
             [] OTHER ->
                  /\ UNCHANGED outFiles
                  /\ Throw(r, tmpFiles, "concat")
    /\ UNCHANGED <<csvExists, rows, outDir, pc, audioSequence, i, filesToConcat, result>>

\* ffprobe calls back; on success the result is returned through the finally block
ProbeReturn(r) ==
    /\ state[r] = "Probing"
    /\ \E toolOk \in BOOLEAN, d \in Durations :
        LET ok == toolOk /\ FileAt(outFiles, OutputPath(r)) # {}
        IN  /\ ops' = Log(r, Op("probe", 0, ok))
            /\ IF ok
               THEN /\ result' = [result EXCEPT ![r] =
                            Some([outputPath |-> OutputPath(r), audioLengthSeconds |-> d])]
                    /\ state' = [state EXCEPT ![r] = "Done"]
                    /\ dirs' = FinallyDirs(dirs, tempDir(r))
                    /\ tmpFiles' = FinallyFiles(tmpFiles, dirs, tempDir(r))
                    /\ UNCHANGED error
               ELSE /\ Throw(r, tmpFiles, "probe")
                    /\ UNCHANGED result
    /\ UNCHANGED <<csvExists, rows, outDir, pc, audioSequence, i, filesToConcat, outFiles>>

(***************************************************************************)
(* Specifications                                                          *)
(***************************************************************************)
Next ==
    \E r \in Runs :
        \/ ParseCsv(r)
        \/ ValidateOutput(r)
        \/ ValidateAudio(r)
        \/ CallCombine(r)
        \/ AddClip(r)
        \/ GenerateSilence(r)
        \/ SkipStep(r)
        \/ ThrowNothingToProcess(r)
        \/ WriteConcatList(r)
        \/ ConcatReturn(r)
        \/ ProbeReturn(r)
        \/ Report(r)
        \/ CatchFatal(r)

Spec == Init /\ [][Next]_vars

(***************************************************************************)
(* Overlapping runs: two processes started with the same                   *)
(* PATH_PROJECT_RESOURCES, each with a readable CSV file and a valid       *)
(* output directory                                                        *)
(***************************************************************************)
InitConc ==
    /\ csvExists = [r \in Runs |-> TRUE]
    /\ rows \in [Runs -> SeqsUpTo(SmallRowPool, MaxConcSteps)]
    /\ outDir = [r \in Runs |-> "ok"]
    /\ pc = [r \in Runs |-> "parse"]
    /\ Fresh

SpecConc == InitConc /\ [][Next]_vars

(***************************************************************************)
(* A single run under fair scheduling: every step that can be taken is     *)
(* taken eventually (each external tool invocation returns)                *)
(***************************************************************************)
InitLive == SingleRun(SeqsUpTo(SmallRowPool, MaxLiveSteps))

SpecLive == InitLive /\ [][Next]_vars /\ WF_vars(Next)

(***************************************************************************)
(* A single run on a CSV file of one row whose audio_file_name_and_path    *)
(* field is any string of at most MaxPathLen characters over PathAlphabet  *)
(***************************************************************************)
PathAlphabet == {"a", QUOTE, BACKSLASH, SPACE, LF}
Paths == UNION {[1..k -> PathAlphabet] : k \in 1..MaxPathLen}

InitEsc ==
    /\ csvExists = [r \in Runs |-> r = 1]
    /\ \E p \in Paths, d \in {<< >>, <<"2">>} :
        rows = [r \in Runs |->
                  IF r = 1 THEN <<[audio_file_name_and_path |-> p, pause_duration |-> d]>>
                  ELSE << >>]
    /\ outDir = [r \in Runs |-> "ok"]
    /\ pc = [r \in Runs |-> IF r = 1 THEN "parse" ELSE "off"]
    /\ Fresh

SpecEsc == InitEsc /\ [][Next]_vars

(***************************************************************************)
(* Manifest lines: one run whose CSV file has rows with a clip path that   *)
(* holds a quote, a clip path that holds a line feed (inside a quoted CSV  *)
(* field), a pause, or nothing                                             *)
(***************************************************************************)
LineRowPool ==
    {[audio_file_name_and_path |-> <<"b", QUOTE>>, pause_duration |-> << >>],
     [audio_file_name_and_path |-> <<"a", LF, "a">>, pause_duration |-> << >>],
     [audio_file_name_and_path |-> << >>, pause_duration |-> <<"2">>],
     [audio_file_name_and_path |-> << >>, pause_duration |-> <<"0">>]}

InitLines == SingleRun(SeqsUpTo(LineRowPool, MaxLineSteps))

SpecLines == InitLines /\ [][Next]_vars

(***************************************************************************)
(* Vocabulary of the properties                                            *)
(***************************************************************************)
Started(r) == state[r] # "Idle"
Finished(r) == state[r] \in {"Done", "Failed"}
Steps(r) == audioSequence[r]
OpsOf(r, name) == SelectSeq(ops[r], LAMBDA o : o.op = name)
ScratchGone(r) ==
    /\ tempDir(r) \notin dirs
    /\ \A f \in tmpFiles : ~IsUnder(f.path, tempDir(r))
ManifestOnDisk(r) == FileAt(tmpFiles, concatListPath(r)) # {}
OutputOnDisk(r) == FileAt(outFiles, OutputPath(r)) # {}

(***************************************************************************)
(* C1: once combineAudioFiles has returned or thrown, the scratch          *)
(* directory of the call and every file in it are gone.                    *)
(***************************************************************************)
C1_ScratchRemovedAfterCall == \A r \in Runs : Finished(r) => ScratchGone(r)

\* a call has ended (either way) after it had written a silence file
C1_Witness ==
    \E r \in Runs :
        /\ Finished(r)
        /\ \E k \in 1..Len(ops[r]) : ops[r][k].op = "silence" /\ ops[r][k].ok
        /\ ScratchGone(r)

(***************************************************************************)
(* C2: when every step has a clip reference, the plan is the clip          *)
(* references of the steps processed so far, in step order, repeated       *)
(* references kept; it has the length of the step sequence once planning   *)
(* is over; no silence is synthesized.                                     *)
(***************************************************************************)
AllClips(r) == \A k \in 1..Len(Steps(r)) : IsSome(Steps(r)[k].audio_file_name_and_path)

C2_ClipOnlyPlanIsClipRefs ==
    \A r \in Runs :
        (Started(r) /\ AllClips(r)) =>
            /\ filesToConcat[r] =
                  [k \in 1..i[r] |-> Get(Steps(r)[k].audio_file_name_and_path)]
            /\ (state[r] # "Planning" => i[r] = Len(Steps(r)))
            /\ OpsOf(r, "silence") = << >>

\* a finished run of at least two differing clips, one of them repeated
C2_Witness ==
    \E r \in Runs :
        /\ state[r] = "Done"
        /\ AllClips(r)
        /\ Len(Steps(r)) >= 3
        /\ filesToConcat[r][1] # filesToConcat[r][2]
        /\ filesToConcat[r][1] = filesToConcat[r][3]

(***************************************************************************)
(* C3: a step with no clip reference and a pause that is unset, zero or    *)
(* negative adds nothing to the plan, runs no silence synthesis and is no  *)
(* cause of failure: the finished plan is the plan of the steps that are   *)
(* left when such steps are removed (a silence file counted as "silence",  *)
(* whatever its index).                                                    *)
(***************************************************************************)
IsSkipped(step) ==
    /\ ~IsSome(step.audio_file_name_and_path)
    /\ (~IsSome(step.pause_duration) \/ Get(step.pause_duration) <= 0)

Silence == <<"silence">>
IsSilenceFile(r, p) == \E idx \in 0..Len(Steps(r)) : p = silenceFile(r, idx)
PlanShape(r) ==
    [k \in 1..Len(filesToConcat[r]) |->
        IF IsSilenceFile(r, filesToConcat[r][k]) THEN Silence ELSE filesToConcat[r][k]]
ShapeWithoutSkipped(r) ==
    LET kept == SelectSeq(Steps(r), LAMBDA st : ~IsSkipped(st))
    IN  [k \in 1..Len(kept) |->
            IF IsSome(kept[k].audio_file_name_and_path)
            THEN Get(kept[k].audio_file_name_and_path)
            ELSE Silence]

C3_SkippedStepAddsNothing ==
    \A r \in Runs :
        /\ (Started(r) /\ i[r] = Len(Steps(r))) => PlanShape(r) = ShapeWithoutSkipped(r)
        /\ \A k \in 1..Len(ops[r]) :
              ops[r][k].op = "silence" => ~IsSkipped(Steps(r)[ops[r][k].at + 1])
        /\ state[r] = "Failed" =>
              \/ error[r] = "nothingToProcess" /\ filesToConcat[r] = << >>
              \/ ops[r] # << >> /\ ~ops[r][Len(ops[r])].ok

\* a finished run whose first step is a zero pause, followed by a real pause
C3_Witness ==
    \E r \in Runs :
        /\ state[r] = "Done"
        /\ Len(Steps(r)) >= 2
        /\ Steps(r)[1].pause_duration = Some(0)
        /\ IsSkipped(Steps(r)[1])
        /\ filesToConcat[r][1] = silenceFile(r, 1)

(***************************************************************************)
(* C4: a step sequence with no clip reference and no pause > 0 (the empty  *)
(* sequence included) makes combineAudioFiles fail with the "nothing to    *)
(* process" error: no manifest is written, neither concatenation nor the   *)
(* probe is invoked, no ProcessingResult is returned.                      *)
(***************************************************************************)
YieldsEmptyPlan(steps) ==
    \A k \in 1..Len(steps) :
        /\ ~IsSome(steps[k].audio_file_name_and_path)
        /\ ~(IsSome(steps[k].pause_duration) /\ Get(steps[k].pause_duration) > 0)

C4_EmptyPlanIsAnError ==
    \A r \in Runs :
        (Started(r) /\ YieldsEmptyPlan(Steps(r))) =>
            /\ state[r] \in {"Planning", "Failed"}
            /\ state[r] = "Failed" => error[r] = "nothingToProcess"
            /\ ops[r] = << >>
            /\ ~ManifestOnDisk(r)
            /\ result[r] = None
            /\ pc[r] \in {"await", "exit1"}

\* the run of a CSV file whose only row has the pause "abc" has failed
C4_Witness ==
    \E r \in Runs :
        /\ Len(rows[r]) = 1
        /\ rows[r][1].pause_duration = <<"a", "b", "c">>
        /\ YieldsEmptyPlan(Steps(r))
        /\ state[r] = "Failed"
        /\ pc[r] = "exit1"

(***************************************************************************)
(* C5: on an input error (CSV file not readable, output directory missing  *)
(* or unusable, a referenced clip missing) the run ends in failure without *)
(* calling combineAudioFiles: no scratch directory, no temp file, no tool  *)
(* invocation.                                                             *)
(***************************************************************************)
ReferencesMissingClip(rs) ==
    \E k \in 1..Len(rs) : Trim(rs[k].audio_file_name_and_path) \in MissingClips

InputError(r) ==
    \/ ~csvExists[r]
    \/ outDir[r] # "ok"
    \/ ReferencesMissingClip(rows[r])

C5_InputErrorStopsBeforeProcessing ==
    \A r \in Runs :
        (pc[r] # "off" /\ InputError(r)) =>
            /\ pc[r] \in {"parse", "validateOutput", "validateAudio", "exit1"}
            /\ state[r] = "Idle"
            /\ ops[r] = << >>
            /\ tempDir(r) \notin dirs
            /\ tmpFiles = {}
            /\ outFiles = {}

\* a run has exited on a CSV file that is readable, with a usable output
\* directory, a pause row and a row naming a missing clip
C5_Witness ==
    \E r \in Runs :
        /\ pc[r] = "exit1"
        /\ csvExists[r]
        /\ outDir[r] = "ok"
        /\ ReferencesMissingClip(rows[r])
        /\ \E k \in 1..Len(Steps(r)) : IsPositivePause(Steps(r)[k])

(***************************************************************************)
(* C6: when a silence synthesis fails, combineAudioFiles fails: the        *)
(* failing step is the last one processed, no manifest is written,         *)
(* neither concatenation nor the probe is invoked, no ProcessingResult is  *)
(* returned and the silence files generated before are removed.            *)
(***************************************************************************)
SilenceFailedAt(r, k) == ops[r][k].op = "silence" /\ ~ops[r][k].ok

C6_SilenceFailureIsFatal ==
    \A r \in Runs : \A k \in 1..Len(ops[r]) :
        SilenceFailedAt(r, k) =>
            /\ k = Len(ops[r])
            /\ i[r] = ops[r][k].at
            /\ state[r] = "Failed"
            /\ error[r] = "silence"
            /\ OpsOf(r, "manifest") = << >>
            /\ OpsOf(r, "concat") = << >>
            /\ OpsOf(r, "probe") = << >>
            /\ result[r] = None
            /\ ScratchGone(r)

\* the second of three pauses has failed after the first was generated
C6_Witness ==
    \E r \in Runs :
        /\ Len(ops[r]) = 2
        /\ ops[r][1].op = "silence" /\ ops[r][1].ok
        /\ SilenceFailedAt(r, 2)
        /\ i[r] + 1 < Len(Steps(r))
        /\ IsPositivePause(Steps(r)[i[r] + 2])
        /\ ScratchGone(r)

(***************************************************************************)
(* C7: when a run of combineAudioFiles has failed, a file is at outputPath *)
(* only if the concatenation succeeded and the probe then failed.          *)
(***************************************************************************)
C7_FailedRunLeavesNoOutput ==
    \A r \in Runs :
        (state[r] = "Failed" /\ OutputOnDisk(r)) => error[r] = "probe"

(***************************************************************************)
(* C8: the scratch area is exclusive to a run: while a run is in progress  *)
(* its scratch directory, the silence files of its plan and its manifest   *)
(* are on disk as that run wrote them, whatever another run does.          *)
(***************************************************************************)
InProgress(r) == state[r] \in {"Planning", "Concatenating", "Probing"}

C8_ScratchExclusiveToRun ==
    \A r \in Runs :
        InProgress(r) =>
            /\ tempDir(r) \in dirs
            /\ \A k \in 1..Len(filesToConcat[r]) :
                  IsSilenceFile(r, filesToConcat[r][k]) =>
                      \E f \in FileAt(tmpFiles, filesToConcat[r][k]) : f.by = r
            /\ state[r] = "Concatenating" =>
                  \E f \in FileAt(tmpFiles, concatListPath(r)) : f.by = r

(***************************************************************************)
(* C9: every line of the manifest decodes, under the concat-list quoting   *)
(* rules, to exactly the segment path it was written for: the manifest     *)
(* read back is the plan, one well-formed entry per segment.               *)
(***************************************************************************)
ManifestReadsBackAsPlan(r) ==
    \A f \in FileAt(tmpFiles, concatListPath(r)) :
        f.by = r =>
        ParseConcatList(f.text) =
            [k \in 1..Len(filesToConcat[r]) |-> [ok |-> TRUE, file |-> filesToConcat[r][k]]]

C9_EveryPathRoundTrips == \A r \in Runs : ManifestReadsBackAsPlan(r)

\* C9 as amended: the same, for the segment paths that hold no line break
HasLineBreak(p) == \E k \in 1..Len(p) : IsLineEnd(p[k])

C9_PathWithoutLineBreakRoundTrips ==
    \A r \in Runs :
        (\A k \in 1..Len(filesToConcat[r]) : ~HasLineBreak(filesToConcat[r][k])) =>
            ManifestReadsBackAsPlan(r)

\* the manifest of a path with two single quotes and a backslash is on disk
C9_Witness ==
    \E r \in Runs :
        /\ ManifestOnDisk(r)
        /\ filesToConcat[r] = <<<<QUOTE, BACKSLASH, QUOTE>>>>

(***************************************************************************)
(* C10: a run that has entered combineAudioFiles ends: it reaches Done or  *)
(* Failed, whatever the step sequence and whatever the tools answer.       *)
(***************************************************************************)
C10_RunEnds == \A r \in Runs : (state[r] = "Planning") ~> Finished(r)

\* a run of three steps with a clip and a pause has gone through every phase
C10_Witness ==
    \E r \in Runs :
        /\ state[r] = "Done"
        /\ Len(Steps(r)) = 3
        /\ OpsOf(r, "silence") # << >>
        /\ \E k \in 1..3 : HasClip(Steps(r)[k])

(***************************************************************************)
(* C11: the plan has one element per non-empty step, in step order: the    *)
(* clip reference of a step that has one (a pause set on the same step is  *)
(* ignored and synthesizes nothing), the path <tempDir>/silence-<i>.mp3    *)
(* for the step at index i (from 0) that has no clip and a pause > 0; two  *)
(* pause steps of a run never share a silence file path.                   *)
(***************************************************************************)
SilencePathAtIndex(r, idx) ==
    ProjectResourcesPath(r)
        \o <<"/", "temporary_deletable", "/", "silence-">> \o IndexString(idx) \o <<".mp3">>

RECURSIVE PlanOfFirst(_, _)
PlanOfFirst(r, n) ==
    IF n = 0 THEN << >>
    ELSE LET st == Steps(r)[n]
             before == PlanOfFirst(r, n - 1)
         IN  IF IsSome(st.audio_file_name_and_path)
             THEN Append(before, Get(st.audio_file_name_and_path))
             ELSE IF IsSome(st.pause_duration) /\ Get(st.pause_duration) > 0
                  THEN Append(before, SilencePathAtIndex(r, n - 1))
                  ELSE before

IsClipRef(r, p) ==
    \E k \in 1..Len(Steps(r)) : Steps(r)[k].audio_file_name_and_path = Some(p)

C11_OneSegmentPerNonEmptyStep ==
    \A r \in Runs :
        Started(r) =>
            /\ filesToConcat[r] = PlanOfFirst(r, i[r])
            /\ \A k \in 1..Len(ops[r]) :
                  ops[r][k].op = "silence" =>
                      ~IsSome(Steps(r)[ops[r][k].at + 1].audio_file_name_and_path)
            /\ \A j, k \in 1..Len(filesToConcat[r]) :
                  (j # k /\ ~IsClipRef(r, filesToConcat[r][j])
                         /\ ~IsClipRef(r, filesToConcat[r][k]))
                      => filesToConcat[r][j] # filesToConcat[r][k]

\* a finished run of a pause, a clip that also has a pause, and a pause
C11_Witness ==
    \E r \in Runs :
        /\ state[r] = "Done"
        /\ Len(Steps(r)) = 3
        /\ ~IsSome(Steps(r)[1].audio_file_name_and_path)
        /\ IsSome(Steps(r)[2].audio_file_name_and_path)
        /\ Steps(r)[2].pause_duration = Some(2)
        /\ ~IsSome(Steps(r)[3].audio_file_name_and_path)
        /\ Len(filesToConcat[r]) = 3
        /\ Len(OpsOf(r, "silence")) = 2
        /\ filesToConcat[r][1] # filesToConcat[r][3]

(***************************************************************************)
(* C12: a run moves only along Idle -> Planning -> Concatenating ->        *)
(* Probing -> Done; Failed is entered only from Planning, Concatenating or *)
(* Probing; after Done or Failed the run invokes no tool and changes       *)
(* nothing of its own; the scratch directory is on disk while the run is   *)
(* in Planning, Concatenating or Probing and is removed in the very step   *)
(* that enters Done or Failed.                                             *)
(***************************************************************************)
PhaseMoves ==
    {<<"Idle", "Planning">>, <<"Planning", "Concatenating">>,
     <<"Concatenating", "Probing">>, <<"Probing", "Done">>,
     <<"Planning", "Failed">>, <<"Concatenating", "Failed">>, <<"Probing", "Failed">>}

PhaseStep(r) ==
    /\ state'[r] # state[r] => <<state[r], state'[r]>> \in PhaseMoves
    /\ Finished(r) =>
          /\ state'[r] = state[r]
          /\ ops'[r] = ops[r]
          /\ filesToConcat'[r] = filesToConcat[r]
          /\ i'[r] = i[r]
          /\ result'[r] = result[r]
          /\ error'[r] = error[r]
          /\ UNCHANGED <<dirs, tmpFiles, outFiles>>
    /\ InProgress(r)' => tempDir(r) \in dirs'
    /\ InProgress(r) =>
          /\ Finished(r)' => tempDir(r) \notin dirs'
          /\ tempDir(r) \notin dirs' => Finished(r)'

C12_PhasesAndCleanup == [][\A r \in Runs : pc[r] # "off" => PhaseStep(r)]_vars

\* a run went through every phase, failed out of Probing and exited
C12_Witness ==
    \E r \in Runs :
        /\ state[r] = "Failed"
        /\ error[r] = "probe"
        /\ Len(ops[r]) >= 3
        /\ tempDir(r) \notin dirs
        /\ pc[r] = "exit1"

(***************************************************************************)
(* C13: the external operations of a run happen one after another: the     *)
(* silence syntheses in step order, then the manifest write, then one      *)
(* concatenation, then one probe, each started only after the one before   *)
(* succeeded; every silence file the manifest lists is on disk when the    *)
(* manifest is written; a ProcessingResult is returned only after a        *)
(* concatenation and a probe that succeeded.                               *)
(***************************************************************************)
OpRank(o) ==
    CASE o.op = "silence" -> 1
      [] o.op = "manifest" -> 2
      [] o.op = "concat" -> 3
      [] o.op = "probe" -> 4

PauseSteps(r) ==
    {k \in 1..Len(Steps(r)) :
        /\ ~IsSome(Steps(r)[k].audio_file_name_and_path)
        /\ IsSome(Steps(r)[k].pause_duration)
        /\ Get(Steps(r)[k].pause_duration) > 0}

OpsInOrder(r) ==
    LET h == ops[r]
    IN  /\ \A k \in 1..Len(h) - 1 :
              /\ h[k].ok
              /\ \/ h[k].op = "silence" /\ h[k + 1].op = "silence" /\ h[k].at < h[k + 1].at
                 \/ h[k].op = "silence" /\ h[k + 1].op = "manifest"
                 \/ OpRank(h[k + 1]) = OpRank(h[k]) + 1
        /\ \A k \in 1..Len(h) :
              /\ h[k].op = "silence" => (h[k].at + 1) \in PauseSteps(r)
              /\ h[k].op = "manifest" =>
                    Cardinality({j \in 1..k : h[j].op = "silence"})
                        = Cardinality(PauseSteps(r))
              /\ h[k].op = "concat" => k > 1 /\ h[k - 1].op = "manifest"
              /\ h[k].op = "probe" => k > 1 /\ h[k - 1].op = "concat"

C13_OperationsInSequence ==
    \A r \in Runs :
        /\ OpsInOrder(r)
        /\ state[r] = "Concatenating" =>
              \A k \in 1..Len(filesToConcat[r]) :
                  ~IsClipRef(r, filesToConcat[r][k]) =>
                      FileAt(tmpFiles, filesToConcat[r][k]) # {}
        /\ IsSome(result[r]) =>
              /\ Len(ops[r]) >= 3
              /\ ops[r][Len(ops[r])] = Op("probe", 0, TRUE)
              /\ ops[r][Len(ops[r]) - 1] = Op("concat", 0, TRUE)
              /\ ops[r][Len(ops[r]) - 2].op = "manifest"

\* a result was returned after two silence syntheses, the manifest write,
\* the concatenation and the probe
C13_Witness ==
    \E r \in Runs :
        /\ IsSome(result[r])
        /\ Len(ops[r]) = 5
        /\ ops[r][1].op = "silence" /\ ops[r][2].op = "silence"
        /\ ops[r][3].op = "manifest"

(***************************************************************************)
(* C14: the manifest has exactly one line per element of the plan, in plan *)
(* order: line k names the k-th segment; no segment is missing, repeated   *)
(* or moved, and a skipped step has no line.                               *)
(***************************************************************************)
LinesMatchPlan(r) ==
    \A f \in FileAt(tmpFiles, concatListPath(r)) :
        f.by = r =>
            LET lines == SplitLines(f.text)
            IN  /\ Len(lines) = Len(filesToConcat[r])
                /\ Len(lines) = Len(SelectSeq(Steps(r), LAMBDA st : ~IsSkipped(st)))
                /\ \A k \in 1..Len(lines) :
                      /\ k <= Len(filesToConcat[r])
                      /\ ParseLine(lines[k]) =
                            Some([ok |-> TRUE, file |-> filesToConcat[r][k]])

C14_OneLinePerSegment == \A r \in Runs : LinesMatchPlan(r)

\* C14 as amended: the same, when no segment path holds a line break
C14_OneLinePerSegmentNoLineBreak ==
    \A r \in Runs :
        (\A k \in 1..Len(filesToConcat[r]) : ~HasLineBreak(filesToConcat[r][k])) =>
            LinesMatchPlan(r)

\* the manifest of a clip with a quote, a skipped step and a pause is on disk
C14_Witness ==
    \E r \in Runs :
        /\ ManifestOnDisk(r)
        /\ Len(Steps(r)) = 3
        /\ IsSkipped(Steps(r)[2])
        /\ Len(filesToConcat[r]) = 2
        /\ filesToConcat[r][1] = <<"b", QUOTE>>
        /\ ~IsClipRef(r, filesToConcat[r][2])

(***************************************************************************)
(* C15: the scratch directory is created on first need: it is on disk only *)
(* when the run has come to a pause step (a silence file to write) or to   *)
(* the manifest write; a run with an empty plan never creates it.          *)
(***************************************************************************)
NeedsScratch(r) ==
    \/ \E k \in PauseSteps(r) : k <= i[r] + 1
    \/ i[r] = Len(Steps(r)) /\ filesToConcat[r] # << >>

C15_ScratchCreatedOnFirstNeed ==
    \A r \in Runs :
        (pc[r] # "off" /\ tempDir(r) \in dirs) =>
            /\ NeedsScratch(r)
            /\ ~YieldsEmptyPlan(Steps(r))

\* C15 as amended: the scratch directory is created when combineAudioFiles
\* is entered, before any step is looked at, whatever the steps are (an empty
\* plan included), and at no other moment; a run that ends before
\* combineAudioFiles is called never creates it.
Creates(r) == tempDir(r) \notin dirs /\ tempDir(r) \in dirs'
Enters(r) == state[r] = "Idle" /\ state'[r] = "Planning"

C15_ScratchCreatedOnEntry ==
    [][\A r \in Runs :
          pc[r] # "off" =>
              /\ Enters(r) => (Creates(r) /\ i'[r] = 0 /\ ops'[r] = << >>)
              /\ Creates(r) => Enters(r)
              /\ state'[r] = "Idle" => tempDir(r) \notin dirs']_vars

\* a run whose steps yield an empty plan is in its loop, the directory on disk
C15_Witness ==
    \E r \in Runs :
        /\ state[r] = "Planning"
        /\ Len(Steps(r)) >= 1
        /\ YieldsEmptyPlan(Steps(r))
        /\ tempDir(r) \in dirs
        /\ tmpFiles = {}

====
